---- MODULE Spec2Model ----
(***************************************************************************)
(* The banking system of src/src/bank.cpp and src/src/ledger.cpp: a driver *)
(* (InitBank) loads a ledger file into a list, starts a pool of worker     *)
(* threads that drain the list and apply deposit / withdraw / transfer to  *)
(* a Bank of accounts, joins them and prints the final report.             *)
(*                                                                         *)
(* Every pthread_mutex_lock / unlock and every access to a balance or a    *)
(* counter is a step of its own: balance += v and num_succ++ are a load    *)
(* followed by a store.                                                    *)
(***************************************************************************)
EXTENDS Integers, Sequences, FiniteSets, Bags, TLC

(* ---- bounds of the model ---- *)
NumAccounts == 2
NumWorkers == 2
MaxLedger == 2
MaxAmount == 1
MaxMalformed == 1

Accounts == 0 .. (NumAccounts - 1)
Workers == 0 .. (NumWorkers - 1)
\* the thread that runs InitBank; worker ids are 0 .. num_workers-1
Driver == NumWorkers
Amounts == 1 .. MaxAmount

\* enum Mode of the ledger file: 0 deposit, 1 withdraw, 2 transfer
D == 0
W == 1
T == 2

\* A parsed ledger line without its ledgerID.  `other` is read from the
\* file on every line but only a transfer uses it.
Lines ==
  [acc : Accounts, other : {0}, amount : Amounts, mode : {D, W}]
    \cup [acc : Accounts, other : Accounts, amount : Amounts, mode : {T}]

\* struct Ledger
Entry(l, id) ==
  [ledgerID |-> id, acc |-> l.acc, other |-> l.other, amount |-> l.amount,
   mode |-> l.mode]

\* what `Ledger current_entry;` holds before it is assigned
NoEntry == [ledgerID |-> -1, acc |-> 0, other |-> 0, amount |-> 0, mode |-> -1]

\* What front() yields on an empty std::list: it has no element, the read is
\* undefined.  The value is arbitrary; worker w's is given the id -(w+2) so
\* that the log lines it causes can be told from those of loaded entries.
Garbage(l, w) == Entry(l, 0 - (w + 2))

LedgerIDs == ((0 - (NumWorkers + 1)) .. (0 - 2)) \cup (0 .. (MaxLedger - 1))

VARIABLES
  drv,          \* position of the driver thread in InitBank / load_ledger / print_account
  dIdx,         \* the driver's loop index i
  bankAlive,    \* the Bank object exists (new Bank .. delete bank)
  ledger,       \* list<struct Ledger> ledger
  nextLedgerID, \* load_ledger's local ledgerID
  skipped,      \* number of malformed lines load_ledger has read
  report,       \* the "ID# <id> | <balance>" lines print_account has written
  ledger_lock,  \* set of threads holding ledger_lock
  bank_lock,    \* set of threads holding bank->bank_lock
  accLock,      \* accLock[a]: set of threads holding accounts[a].lock
  balance,      \* accounts[a].balance
  num_succ,
  num_fail,
  log,          \* log[id]: the [ SUCCESS ] and [ FAIL ] lines written for ledgerID id
  pc,           \* position of each worker
  cur,          \* each worker's current_entry
  tmp,          \* each worker's loaded balance or counter
  successful,   \* what the Bank operation returns: `successful`, or the -1 of line 215
  snap,         \* history: balances of the accounts of the operation when it got its locks
  dispatched,   \* history: bag of the entries handed to a Bank operation
  crashed       \* the process was aborted

vars ==
  <<drv, dIdx, bankAlive, ledger, nextLedgerID, skipped, report, ledger_lock,
    bank_lock, accLock, balance, num_succ, num_fail, log, pc, cur, tmp,
    successful, snap, dispatched, crashed>>

driverVars == <<drv, dIdx, bankAlive, nextLedgerID, skipped, report>>
bankVars == <<accLock, balance, bank_lock, num_succ, num_fail, log>>
localVars == <<cur, tmp, successful, snap>>

(* ---- pthread mutexes ---- *)
\* pthread_mutex_lock returns only when nobody holds the mutex.  The mutexes
\* are default (non-recursive) ones: a thread locking a mutex it holds
\* itself waits forever like any other.
\* a lock that never waits
CanLockAlways(m) == TRUE
CanLock(m) == m = {}
Locked(m, t) == m \cup {t}
\* an unlock that releases nothing
UnlockedNot(m, t) == m
Unlocked(m, t) == m \ {t}

\* Bank::Bank (and the zero-initialised globals of ledger.cpp)
Init ==
  /\ drv = "open"
  /\ dIdx = 0
  /\ bankAlive = TRUE
  /\ ledger = <<>>
  /\ nextLedgerID = 0
  /\ skipped = 0
  /\ report = <<>>
  /\ ledger_lock = {}
  /\ bank_lock = {}
  /\ accLock = [a \in Accounts |-> {}]
  /\ balance = [a \in Accounts |-> 0]
  /\ num_succ = 0
  /\ num_fail = 0
  /\ log = [i \in LedgerIDs |-> [succ |-> 0, fail |-> 0]]
  /\ pc = [w \in Workers |-> "idle"]
  /\ cur = [w \in Workers |-> NoEntry]
  /\ tmp = [w \in Workers |-> 0]
  /\ successful = [w \in Workers |-> 0]
  /\ snap = [w \in Workers |-> <<>>]
  /\ dispatched = EmptyBag
  /\ crashed = FALSE

(* ---- the driver: InitBank and load_ledger ---- *)
workerVars == <<pc, cur, tmp, successful, snap, dispatched>>

\* the return of line 41 without the delete of line 40
OpenFailKeepsBank ==
  /\ ~crashed /\ drv = "open"
  /\ drv' = "aborted"
  /\ UNCHANGED <<report, dIdx, bankAlive, ledger, nextLedgerID, skipped,
                 ledger_lock, bankVars, workerVars, crashed>>
\* load_ledger: the file cannot be opened; InitBank deletes the bank and returns
OpenFail ==
  /\ ~crashed /\ drv = "open"
  /\ drv' = "aborted"
  /\ bankAlive' = FALSE
  /\ UNCHANGED <<report, dIdx, ledger, nextLedgerID, skipped, ledger_lock,
                 bankVars,
                 workerVars, crashed>>

OpenOk ==
  /\ ~crashed /\ drv = "open"
  /\ drv' = "load"
  /\ UNCHANGED <<report, dIdx, bankAlive, ledger, nextLedgerID, skipped,
                 ledger_lock,
                 bankVars, workerVars, crashed>>

\* a line that parses: it gets the next ledgerID and is appended
LoadLine ==
  /\ ~crashed /\ drv = "load"
  /\ nextLedgerID < MaxLedger
  /\ \E l \in Lines : ledger' = Append(ledger, Entry(l, nextLedgerID))
  /\ nextLedgerID' = nextLedgerID + 1
  /\ UNCHANGED <<report, drv, dIdx, bankAlive, skipped, ledger_lock, bankVars,
                 workerVars, crashed>>

\* a line that does not parse is skipped and gets no ledgerID
SkipLine ==
  /\ ~crashed /\ drv = "load"
  /\ skipped < MaxMalformed
  /\ skipped' = skipped + 1
  /\ UNCHANGED <<report, drv, dIdx, bankAlive, ledger, nextLedgerID,
                 ledger_lock,
                 bankVars, workerVars, crashed>>

\* end of file: load_ledger returns 0
LoadDone ==
  /\ ~crashed /\ drv = "load"
  /\ drv' = "create"
  /\ dIdx' = 0
  /\ UNCHANGED <<report, bankAlive, ledger, nextLedgerID, skipped, ledger_lock,
                 bankVars, workerVars, crashed>>

\* pthread_create(&workers[i], NULL, worker, id)
CreateWorker ==
  /\ ~crashed /\ drv = "create"
  /\ dIdx < NumWorkers
  /\ pc' = [pc EXCEPT ![dIdx] = "check"]
  /\ dIdx' = dIdx + 1
  /\ UNCHANGED <<report, drv, bankAlive, ledger, nextLedgerID, skipped,
                 ledger_lock,
                 bankVars, localVars, dispatched, crashed>>

CreateDone ==
  /\ ~crashed /\ drv = "create"
  /\ dIdx = NumWorkers
  /\ drv' = "join"
  /\ dIdx' = 0
  /\ UNCHANGED <<report, bankAlive, ledger, nextLedgerID, skipped, ledger_lock,
                 bankVars, workerVars, crashed>>

\* pthread_join(workers[id], NULL) returns once that worker has returned
JoinWorker ==
  /\ ~crashed /\ drv = "join"
  /\ dIdx < NumWorkers
  /\ pc[dIdx] = "done"
  /\ dIdx' = dIdx + 1
  /\ UNCHANGED <<report, drv, bankAlive, ledger, nextLedgerID, skipped,
                 ledger_lock,
                 bankVars, workerVars, crashed>>

JoinDone ==
  /\ ~crashed /\ drv = "join"
  /\ dIdx = NumWorkers
  /\ drv' = "print"
  /\ dIdx' = 0
  /\ UNCHANGED <<report, bankAlive, ledger, nextLedgerID, skipped, ledger_lock,
                 bankVars, workerVars, crashed>>

(* ---- Bank::print_account, run by the driver ---- *)
\* line 8
PrintLock ==
  /\ ~crashed /\ drv = "print"
  /\ dIdx < NumAccounts
  /\ CanLock(accLock[dIdx])
  /\ accLock' = [accLock EXCEPT ![dIdx] = Locked(@, Driver)]
  /\ drv' = "printed"
  /\ UNCHANGED <<report, dIdx, bankAlive, ledger, nextLedgerID, skipped,
                 ledger_lock,
                 balance, bank_lock, num_succ, num_fail, log, workerVars,
                 crashed>>

\* lines 9-11: the account's line is written, then its lock is released
PrintUnlock ==
  /\ ~crashed /\ drv = "printed"
  /\ report' = Append(report, [id |-> dIdx, balance |-> balance[dIdx]])
  /\ accLock' = [accLock EXCEPT ![dIdx] = Unlocked(@, Driver)]
  /\ dIdx' = dIdx + 1
  /\ drv' = "print"
  /\ UNCHANGED <<bankAlive, ledger, nextLedgerID, skipped, ledger_lock,
                 balance, bank_lock, num_succ, num_fail, log, workerVars,
                 crashed>>

\* line 14
PrintStatsLock ==
  /\ ~crashed /\ drv = "print"
  /\ dIdx = NumAccounts
  /\ CanLock(bank_lock)
  /\ bank_lock' = Locked(bank_lock, Driver)
  /\ drv' = "stats"
  /\ UNCHANGED <<report, dIdx, bankAlive, ledger, nextLedgerID, skipped,
                 ledger_lock,
                 accLock, balance, num_succ, num_fail, log, workerVars,
                 crashed>>

\* the stats line is printed, print_account returns, InitBank deletes the bank
PrintStatsUnlock ==
  /\ ~crashed /\ drv = "stats"
  /\ bank_lock' = Unlocked(bank_lock, Driver)
  /\ drv' = "finished"
  /\ bankAlive' = FALSE
  /\ UNCHANGED <<report, dIdx, ledger, nextLedgerID, skipped, ledger_lock,
                 accLock,
                 balance, num_succ, num_fail, log, workerVars, crashed>>

DriverStep ==
  \/ OpenFail \/ OpenOk \/ LoadLine \/ SkipLine \/ LoadDone
  \/ CreateWorker \/ CreateDone \/ JoinWorker \/ JoinDone
  \/ PrintLock \/ PrintUnlock \/ PrintStatsLock \/ PrintStatsUnlock

(* ---- worker(): the loop that drains the ledger ---- *)
At(w, loc) == ~crashed /\ pc[w] = loc
Goto(w, loc) == pc' = [pc EXCEPT ![w] = loc]

\* line 136: if (ledger.empty()) return NULL;  -- read without ledger_lock
Check(w) ==
  /\ At(w, "check")
  /\ Goto(w, IF ledger = <<>> THEN "done" ELSE "lockLedger")
  /\ UNCHANGED <<driverVars, ledger, ledger_lock, bankVars, localVars,
                 dispatched, crashed>>

\* line 138
LockLedger(w) ==
  /\ At(w, "lockLedger")
  /\ CanLock(ledger_lock)
  /\ ledger_lock' = Locked(ledger_lock, w)
  /\ Goto(w, "take")
  /\ UNCHANGED <<driverVars, ledger, bankVars, localVars, dispatched, crashed>>

\* lines 139-140: current_entry = ledger.front(); ledger.pop_front();
Take(w) ==
  /\ At(w, "take")
  /\ ledger # <<>>
  /\ cur' = [cur EXCEPT ![w] = Head(ledger)]
  /\ ledger' = Tail(ledger)
  /\ Goto(w, "unlockLedger")
  /\ UNCHANGED <<driverVars, ledger_lock, bankVars, tmp, successful, snap,
                 dispatched, crashed>>

\* lines 139-140 on a list another worker emptied after this one's check at
\* line 136: front() and pop_front() of an empty list are undefined.  One
\* outcome: pop_front() frees the list's sentinel and the process aborts.
TakeEmptyAbort(w) ==
  /\ At(w, "take")
  /\ ledger = <<>>
  /\ crashed' = TRUE
  /\ UNCHANGED <<driverVars, ledger, ledger_lock, bankVars, workerVars>>

\* The other outcome: the worker goes on with whatever front() read.
TakeEmptyGarbage(w) ==
  /\ At(w, "take")
  /\ ledger = <<>>
  /\ \E l \in Lines : cur' = [cur EXCEPT ![w] = Garbage(l, w)]
  /\ Goto(w, "unlockLedger")
  /\ UNCHANGED <<driverVars, ledger, ledger_lock, bankVars, tmp, successful,
                 snap, dispatched, crashed>>

\* the first statement of the Bank operation that lines 144-153 call
Dispatch(e) ==
  IF e.mode = D THEN "dLock" ELSE IF e.mode = W THEN "wLock" ELSE "tLockSrc"

\* line 142, then the call of bank->deposit / withdraw / transfer
UnlockLedger(w) ==
  /\ At(w, "unlockLedger")
  /\ ledger_lock' = Unlocked(ledger_lock, w)
  /\ Goto(w, Dispatch(cur[w]))
  /\ successful' = [successful EXCEPT ![w] = 0]
  /\ dispatched' = dispatched (+) SetToBag({cur[w]})
  /\ UNCHANGED <<driverVars, ledger, bankVars, cur, tmp, snap, crashed>>

\* the Bank operation returns; the worker's loop starts over
Return(w) ==
  /\ At(w, "ret")
  /\ Goto(w, "check")
  /\ cur' = [cur EXCEPT ![w] = NoEntry]
  /\ snap' = [snap EXCEPT ![w] = <<>>]
  /\ tmp' = [tmp EXCEPT ![w] = 0]
  /\ UNCHANGED <<driverVars, ledger, ledger_lock, bankVars, successful,
                 dispatched, crashed>>

(* ---- Bank::recordSucc and Bank::recordFail ---- *)
\* where the caller goes on after recordSucc / recordFail
AfterRecord(e) ==
  IF e.mode = D THEN "dUnlock" ELSE IF e.mode = W THEN "wUnlock" ELSE "tUnlock1"

RsLock(w) ==
  /\ At(w, "rsLock")
  /\ CanLock(bank_lock)
  /\ bank_lock' = Locked(bank_lock, w)
  /\ Goto(w, "rsLog")
  /\ UNCHANGED <<driverVars, ledger, ledger_lock, accLock, balance, num_succ,
                 num_fail, log, localVars, dispatched, crashed>>

\* line 40: cout << message << endl; and the load of num_succ++
RsLog(w) ==
  /\ At(w, "rsLog")
  /\ log' = [log EXCEPT ![cur[w].ledgerID].succ = @ + 1]
  /\ tmp' = [tmp EXCEPT ![w] = num_succ]
  /\ Goto(w, "rsInc")
  /\ UNCHANGED <<driverVars, ledger, ledger_lock, accLock, balance, bank_lock,
                 num_succ, num_fail, cur, successful, snap, dispatched, crashed>>

\* line 41, the store of num_succ++
RsInc(w) ==
  /\ At(w, "rsInc")
  /\ num_succ' = tmp[w] + 1
  /\ Goto(w, "rsUnlock")
  /\ UNCHANGED <<driverVars, ledger, ledger_lock, accLock, balance, bank_lock,
                 num_fail, log, localVars, dispatched, crashed>>

RsUnlock(w) ==
  /\ At(w, "rsUnlock")
  /\ bank_lock' = Unlocked(bank_lock, w)
  /\ Goto(w, AfterRecord(cur[w]))
  /\ UNCHANGED <<driverVars, ledger, ledger_lock, accLock, balance, num_succ,
                 num_fail, log, localVars, dispatched, crashed>>

RfLock(w) ==
  /\ At(w, "rfLock")
  /\ CanLock(bank_lock)
  /\ bank_lock' = Locked(bank_lock, w)
  /\ Goto(w, "rfLog")
  /\ UNCHANGED <<driverVars, ledger, ledger_lock, accLock, balance, num_succ,
                 num_fail, log, localVars, dispatched, crashed>>

\* line 27: cout << message << endl; and the load of num_fail++
RfLog(w) ==
  /\ At(w, "rfLog")
  /\ log' = [log EXCEPT ![cur[w].ledgerID].fail = @ + 1]
  /\ tmp' = [tmp EXCEPT ![w] = num_fail]
  /\ Goto(w, "rfInc")
  /\ UNCHANGED <<driverVars, ledger, ledger_lock, accLock, balance, bank_lock,
                 num_succ, num_fail, cur, successful, snap, dispatched, crashed>>

\* line 28, the store of num_fail++
RfInc(w) ==
  /\ At(w, "rfInc")
  /\ num_fail' = tmp[w] + 1
  /\ Goto(w, "rfUnlock")
  /\ UNCHANGED <<driverVars, ledger, ledger_lock, accLock, balance, bank_lock,
                 num_succ, log, localVars, dispatched, crashed>>

\* recordFail returns; withdraw and transfer then set successful = -1
RfUnlock(w) ==
  /\ At(w, "rfUnlock")
  /\ bank_lock' = Unlocked(bank_lock, w)
  /\ successful' = [successful EXCEPT ![w] = 0 - 1]
  /\ Goto(w, AfterRecord(cur[w]))
  /\ UNCHANGED <<driverVars, ledger, ledger_lock, accLock, balance, num_succ,
                 num_fail, log, cur, tmp, snap, dispatched, crashed>>

(* ---- Bank::deposit ---- *)
\* line 128
DLock(w) ==
  /\ At(w, "dLock")
  /\ CanLock(accLock[cur[w].acc])
  /\ accLock' = [accLock EXCEPT ![cur[w].acc] = Locked(@, w)]
  /\ snap' = [snap EXCEPT ![w] = <<balance[cur[w].acc]>>]
  /\ Goto(w, "dRead")
  /\ UNCHANGED <<driverVars, ledger, ledger_lock, balance, bank_lock, num_succ,
                 num_fail, log, cur, tmp, successful, dispatched, crashed>>

\* line 129, the load of current.balance += amount
DRead(w) ==
  /\ At(w, "dRead")
  /\ tmp' = [tmp EXCEPT ![w] = balance[cur[w].acc]]
  /\ Goto(w, "dWrite")
  /\ UNCHANGED <<driverVars, ledger, ledger_lock, bankVars, cur, successful,
                 snap, dispatched, crashed>>

\* balance = amount written for balance += amount
DepositSumOverwrite(old, amount) == amount
DepositSum(old, amount) == old + amount

\* line 129, the store; line 130 calls recordSucc
DWrite(w) ==
  /\ At(w, "dWrite")
  /\ balance' = [balance EXCEPT ![cur[w].acc] = DepositSum(tmp[w], cur[w].amount)]
  /\ Goto(w, "rsLock")
  /\ UNCHANGED <<driverVars, ledger, ledger_lock, accLock, bank_lock, num_succ,
                 num_fail, log, localVars, dispatched, crashed>>

\* line 131
DUnlock(w) ==
  /\ At(w, "dUnlock")
  /\ accLock' = [accLock EXCEPT ![cur[w].acc] = Unlocked(@, w)]
  /\ Goto(w, "ret")
  /\ UNCHANGED <<driverVars, ledger, ledger_lock, balance, bank_lock, num_succ,
                 num_fail, log, localVars, dispatched, crashed>>

(* ---- Bank::withdraw ---- *)
\* line 164
WLock(w) ==
  /\ At(w, "wLock")
  /\ CanLock(accLock[cur[w].acc])
  /\ accLock' = [accLock EXCEPT ![cur[w].acc] = Locked(@, w)]
  /\ snap' = [snap EXCEPT ![w] = <<balance[cur[w].acc]>>]
  /\ Goto(w, "wCheck")
  /\ UNCHANGED <<driverVars, ledger, ledger_lock, balance, bank_lock, num_succ,
                 num_fail, log, cur, tmp, successful, dispatched, crashed>>

\* the comparison written as < , and written with a slack of one
SufficientStrict(amount, bal) == amount < bal
SufficientSlack(amount, bal) == amount <= bal + 1
\* the condition of lines 166 and 227
Sufficient(amount, bal) == amount <= bal

\* line 166: if (amount <= current.balance); else line 173 calls recordFail
WCheck(w) ==
  /\ At(w, "wCheck")
  /\ Goto(w, IF Sufficient(cur[w].amount, balance[cur[w].acc])
               THEN "wRead" ELSE "rfLock")
  /\ UNCHANGED <<driverVars, ledger, ledger_lock, bankVars, localVars,
                 dispatched, crashed>>

\* line 168, the load of current.balance -= amount
WRead(w) ==
  /\ At(w, "wRead")
  /\ tmp' = [tmp EXCEPT ![w] = balance[cur[w].acc]]
  /\ Goto(w, "wSub")
  /\ UNCHANGED <<driverVars, ledger, ledger_lock, bankVars, cur, successful,
                 snap, dispatched, crashed>>

\* line 168, the store; line 169 calls recordSucc
WSub(w) ==
  /\ At(w, "wSub")
  /\ balance' = [balance EXCEPT ![cur[w].acc] = tmp[w] - cur[w].amount]
  /\ Goto(w, "rsLock")
  /\ UNCHANGED <<driverVars, ledger, ledger_lock, accLock, bank_lock, num_succ,
                 num_fail, log, localVars, dispatched, crashed>>

\* line 177
WUnlock(w) ==
  /\ At(w, "wUnlock")
  /\ accLock' = [accLock EXCEPT ![cur[w].acc] = Unlocked(@, w)]
  /\ Goto(w, "ret")
  /\ UNCHANGED <<driverVars, ledger, ledger_lock, balance, bank_lock, num_succ,
                 num_fail, log, localVars, dispatched, crashed>>

(* ---- Bank::transfer ---- *)
\* `unsigned int amount` receives the int of the ledger entry and line 227
\* compares it with the long balance: for the amounts of Amounts, which are
\* not negative, both conversions keep the value.

\* lines 218-225: the lock of the lower account id is taken first
FirstLock(e) == IF e.acc < e.other THEN e.acc ELSE e.other
SecondLock(e) == IF e.acc < e.other THEN e.other ELSE e.acc
\* lines 237-243
FirstUnlock(e) == IF e.acc < e.other THEN e.other ELSE e.acc
SecondUnlock(e) == IF e.acc < e.other THEN e.acc ELSE e.other

\* line 214: pthread_mutex_lock(&source.lock), before anything is checked
TLockSrc(w) ==
  /\ At(w, "tLockSrc")
  /\ CanLock(accLock[cur[w].acc])
  /\ accLock' = [accLock EXCEPT ![cur[w].acc] = Locked(@, w)]
  /\ Goto(w, "tSelf")
  /\ UNCHANGED <<driverVars, ledger, ledger_lock, balance, bank_lock, num_succ,
                 num_fail, log, localVars, dispatched, crashed>>

\* line 215: if (srcID == destID) { return -1; }  -- source.lock stays locked
\* and neither recordFail nor recordSucc is called
TSelfReturn(w) ==
  /\ At(w, "tSelf")
  /\ cur[w].acc = cur[w].other
  /\ successful' = [successful EXCEPT ![w] = 0 - 1]
  /\ Goto(w, "ret")
  /\ UNCHANGED <<driverVars, ledger, ledger_lock, bankVars, cur, tmp, snap,
                 dispatched, crashed>>

\* line 216
TSrcUnlock(w) ==
  /\ At(w, "tSelf")
  /\ cur[w].acc # cur[w].other
  /\ accLock' = [accLock EXCEPT ![cur[w].acc] = Unlocked(@, w)]
  /\ Goto(w, "tLock1")
  /\ UNCHANGED <<driverVars, ledger, ledger_lock, balance, bank_lock, num_succ,
                 num_fail, log, localVars, dispatched, crashed>>

\* line 219 or 223
TLock1(w) ==
  /\ At(w, "tLock1")
  /\ CanLock(accLock[FirstLock(cur[w])])
  /\ accLock' = [accLock EXCEPT ![FirstLock(cur[w])] = Locked(@, w)]
  /\ Goto(w, "tLock2")
  /\ UNCHANGED <<driverVars, ledger, ledger_lock, balance, bank_lock, num_succ,
                 num_fail, log, localVars, dispatched, crashed>>

\* line 220 or 224
TLock2(w) ==
  /\ At(w, "tLock2")
  /\ CanLock(accLock[SecondLock(cur[w])])
  /\ accLock' = [accLock EXCEPT ![SecondLock(cur[w])] = Locked(@, w)]
  /\ snap' = [snap EXCEPT ![w] = <<balance[cur[w].acc], balance[cur[w].other]>>]
  /\ Goto(w, "tCheck")
  /\ UNCHANGED <<driverVars, ledger, ledger_lock, balance, bank_lock, num_succ,
                 num_fail, log, cur, tmp, successful, dispatched, crashed>>

\* line 227: if (amount <= source.balance); else line 233 calls recordFail
TCheck(w) ==
  /\ At(w, "tCheck")
  /\ Goto(w, IF Sufficient(cur[w].amount, balance[cur[w].acc])
               THEN "tReadSrc" ELSE "rfLock")
  /\ UNCHANGED <<driverVars, ledger, ledger_lock, bankVars, localVars,
                 dispatched, crashed>>

\* line 229, the load of source.balance -= amount
TReadSrc(w) ==
  /\ At(w, "tReadSrc")
  /\ tmp' = [tmp EXCEPT ![w] = balance[cur[w].acc]]
  /\ Goto(w, "tSub")
  /\ UNCHANGED <<driverVars, ledger, ledger_lock, bankVars, cur, successful,
                 snap, dispatched, crashed>>

\* line 229, the store
TSub(w) ==
  /\ At(w, "tSub")
  /\ balance' = [balance EXCEPT ![cur[w].acc] = tmp[w] - cur[w].amount]
  /\ Goto(w, "tRead")
  /\ UNCHANGED <<driverVars, ledger, ledger_lock, accLock, bank_lock, num_succ,
                 num_fail, log, localVars, dispatched, crashed>>

\* line 230, the load of destination.balance += amount
TRead(w) ==
  /\ At(w, "tRead")
  /\ tmp' = [tmp EXCEPT ![w] = balance[cur[w].other]]
  /\ Goto(w, "tAdd")
  /\ UNCHANGED <<driverVars, ledger, ledger_lock, bankVars, cur, successful,
                 snap, dispatched, crashed>>

\* line 230, the store; line 231 calls recordSucc
TAdd(w) ==
  /\ At(w, "tAdd")
  /\ balance' = [balance EXCEPT ![cur[w].other] = tmp[w] + cur[w].amount]
  /\ Goto(w, "rsLock")
  /\ UNCHANGED <<driverVars, ledger, ledger_lock, accLock, bank_lock, num_succ,
                 num_fail, log, localVars, dispatched, crashed>>

\* line 238 or 241
TUnlock1(w) ==
  /\ At(w, "tUnlock1")
  /\ accLock' = [accLock EXCEPT ![FirstUnlock(cur[w])] = Unlocked(@, w)]
  /\ Goto(w, "tUnlock2")
  /\ UNCHANGED <<driverVars, ledger, ledger_lock, balance, bank_lock, num_succ,
                 num_fail, log, localVars, dispatched, crashed>>

\* line 239 or 242, then return successful
TUnlock2(w) ==
  /\ At(w, "tUnlock2")
  /\ accLock' = [accLock EXCEPT ![SecondUnlock(cur[w])] = Unlocked(@, w)]
  /\ Goto(w, "ret")
  /\ UNCHANGED <<driverVars, ledger, ledger_lock, balance, bank_lock, num_succ,
                 num_fail, log, localVars, dispatched, crashed>>

TransferStep(w) ==
  \/ TLockSrc(w) \/ TSelfReturn(w) \/ TSrcUnlock(w) \/ TLock1(w) \/ TLock2(w)
  \/ TCheck(w) \/ TReadSrc(w) \/ TSub(w) \/ TRead(w) \/ TAdd(w)
  \/ TUnlock1(w) \/ TUnlock2(w)

DepositStep(w) == DLock(w) \/ DRead(w) \/ DWrite(w) \/ DUnlock(w)
WithdrawStep(w) ==
  WLock(w) \/ WCheck(w) \/ WRead(w) \/ WSub(w) \/ WUnlock(w)
RecordStep(w) ==
  \/ RsLock(w) \/ RsLog(w) \/ RsInc(w) \/ RsUnlock(w)
  \/ RfLock(w) \/ RfLog(w) \/ RfInc(w) \/ RfUnlock(w)
LoopStep(w) ==
  \/ Check(w) \/ LockLedger(w) \/ Take(w) \/ TakeEmptyAbort(w)
  \/ TakeEmptyGarbage(w) \/ UnlockLedger(w) \/ Return(w)

WorkerStep(w) ==
  \/ LoopStep(w) \/ DepositStep(w) \/ WithdrawStep(w) \/ TransferStep(w)
  \/ RecordStep(w)

Next == DriverStep \/ \E w \in Workers : WorkerStep(w)

Spec == Init /\ [][Next]_vars

\* The threads are scheduled by the operating system: a thread that can take
\* a step is not held back forever.
FairSpec ==
  Spec /\ WF_vars(DriverStep) /\ \A w \in Workers : WF_vars(WorkerStep(w))

(* ---- properties ---- *)
SelfTransfer(e) == e.mode = T /\ e.acc = e.other
PairTransfer(e) == e.mode = T /\ e.acc # e.other
AllWorkersDone == \A w \in Workers : pc[w] = "done"
\* the driver is past the joins
Joined == drv \in {"print", "printed", "stats", "finished"}
RunOver == crashed \/ drv \in {"finished", "aborted"}
\* the take of lines 136-140 has not gone wrong so far: the process was not
\* aborted and every entry dispatched is one that load_ledger loaded
Loaded(e) == e.ledgerID >= 0
TakesSound == ~crashed /\ \A e \in BagToSet(dispatched) : Loaded(e)

\* C1: the self-transfer of a loaded entry returns failure and, when it
\* returns, the calling worker does not hold the lock of the account (it
\* acquired none).
C1_SelfTransferTakesNoLock ==
  \A w \in Workers :
    (pc[w] = "ret" /\ SelfTransfer(cur[w]) /\ Loaded(cur[w])) =>
      /\ successful[w] = 0 - 1
      /\ w \notin accLock[cur[w].acc]

\* C2: the self-transfer of a loaded entry is recorded as a failure: when it
\* returns, exactly one [ FAIL ] line and no [ SUCCESS ] line has been
\* recorded for its entry, and num_fail counts it.
C2_SelfTransferRecordedAsFail ==
  \A w \in Workers :
    (pc[w] = "ret" /\ SelfTransfer(cur[w]) /\ Loaded(cur[w])) =>
      /\ num_fail >= 1
      /\ log[cur[w].ledgerID] = [succ |-> 0, fail |-> 1]

\* C3: once all workers have finished, num_succ + num_fail is the number of
\* well-formed lines loaded (stated for the runs in which the takes were
\* sound, so that a violation does not rest on the race of C4).
C3_CountsEqualLoaded ==
  (Joined /\ TakesSound) => num_succ + num_fail = nextLedgerID

\* C4: every loaded entry is dispatched exactly once: nothing dispatched is
\* anything but a loaded entry, none is dispatched twice, and when all workers
\* have finished every loaded entry has been dispatched.
C4_DispatchedExactlyOnce ==
  /\ \A e \in BagToSet(dispatched) :
       e.ledgerID \in 0 .. (nextLedgerID - 1) /\ CopiesIn(e, dispatched) = 1
  /\ AllWorkersDone =>
       \A i \in 0 .. (nextLedgerID - 1) :
         \E e \in BagToSet(dispatched) : e.ledgerID = i

\* the account whose lock worker w is about to acquire
Wanted(w) ==
  IF pc[w] \in {"dLock", "wLock", "tLockSrc"} THEN {cur[w].acc}
  ELSE IF pc[w] = "tLock1" THEN {FirstLock(cur[w])}
  ELSE IF pc[w] = "tLock2" THEN {SecondLock(cur[w])}
  ELSE {}
\* w waits for an account lock that v holds
WaitsOn(w, v) == \E a \in Wanted(w) : v \in accLock[a]
WaitCycle ==
  \E S \in SUBSET Workers :
    /\ S # {}
    /\ \A w \in S : \E v \in S \ {w} : WaitsOn(w, v)

\* C5: no deadlock: no set of workers wait for account locks held by one
\* another, and the run never comes to a state in which it has not ended and
\* no thread can take a step (stated for the runs in which the takes were
\* sound, so that a violation does not rest on the race of C4).
C5_NoDeadlock == TakesSound => (~WaitCycle /\ (RunOver \/ ENABLED Next))

\* C6: the run completes: all workers terminate, the joins return and the
\* final report is printed (a run in which a take went wrong is let off, so
\* that a violation does not rest on the race of C4).
C6_RunCompletes == <>(drv \in {"finished", "aborted"} \/ ~TakesSound)

\* C7: a transfer between two different accounts, from the moment it holds
\* both locks until it releases the first: before it decides, both balances
\* are those it found; it takes the success path iff amount <= the source
\* balance it found; after the success path the source has lost exactly
\* amount and the destination gained exactly amount; after the failure path
\* both are as found.  Meanwhile it alone holds the two locks and no other
\* operation changes either balance.
C7_TransferAtomic ==
  \A w \in Workers :
    LET e == cur[w]
        s == snap[w]
        src == balance[e.acc]
        dst == balance[e.other]
        moved == src = s[1] - e.amount /\ dst = s[2] + e.amount
        kept == src = s[1] /\ dst = s[2]
        holding == {"tCheck", "tReadSrc", "tSub", "tRead", "tAdd", "rsLock",
                    "rsLog", "rsInc", "rsUnlock", "rfLock", "rfLog", "rfInc",
                    "rfUnlock", "tUnlock1"}
    IN  PairTransfer(e) =>
          /\ pc[w] \in holding => accLock[e.acc] = {w} /\ accLock[e.other] = {w}
          /\ pc[w] = "tCheck" => kept
          /\ pc[w] \in {"tReadSrc", "tSub"} => e.amount <= s[1] /\ kept
          /\ pc[w] \in {"tRead", "tAdd"} =>
               e.amount <= s[1] /\ src = s[1] - e.amount /\ dst = s[2]
          /\ pc[w] \in {"rsLock", "rsLog", "rsInc", "rsUnlock"} =>
               e.amount <= s[1] /\ moved /\ src + dst = s[1] + s[2]
          /\ pc[w] \in {"rfLock", "rfLog", "rfInc", "rfUnlock"} => e.amount > s[1] /\ kept
          /\ pc[w] = "tUnlock1" =>
               IF successful[w] = 0 THEN e.amount <= s[1] /\ moved
               ELSE e.amount > s[1] /\ kept

\* a transfer between two accounts has moved the funds and still holds both locks
C7_Witness ==
  \E w \in Workers :
    /\ PairTransfer(cur[w]) /\ pc[w] = "tUnlock1" /\ successful[w] = 0
    /\ balance[cur[w].other] = snap[w][2] + cur[w].amount

\* C8: a withdraw, from the moment it holds the account's lock until it
\* releases it: it takes the success path iff amount <= the balance it found;
\* on success the balance is lower by exactly amount and one success and no
\* failure is recorded for the entry; on failure the balance is as found and
\* one failure and no success is recorded.  Meanwhile it alone holds the
\* account's lock and no other operation changes the balance.
C8_WithdrawAtomic ==
  \A w \in Workers :
    LET e == cur[w]
        s == snap[w]
        bal == balance[e.acc]
        holding == {"wCheck", "wRead", "wSub", "rsLock", "rsLog", "rsInc",
                    "rsUnlock", "rfLock", "rfLog", "rfInc", "rfUnlock",
                    "wUnlock"}
    IN  e.mode = W =>
          /\ pc[w] \in holding => accLock[e.acc] = {w}
          /\ pc[w] = "wCheck" => bal = s[1]
          /\ pc[w] \in {"wRead", "wSub"} => e.amount <= s[1] /\ bal = s[1]
          /\ pc[w] \in {"rsLock", "rsLog", "rsInc", "rsUnlock"} =>
               e.amount <= s[1] /\ bal = s[1] - e.amount
          /\ pc[w] \in {"rfLock", "rfLog", "rfInc", "rfUnlock"} =>
               e.amount > s[1] /\ bal = s[1]
          /\ pc[w] = "wUnlock" =>
               IF successful[w] = 0
               THEN /\ e.amount <= s[1] /\ bal = s[1] - e.amount
                    /\ log[e.ledgerID] = [succ |-> 1, fail |-> 0]
               ELSE /\ e.amount > s[1] /\ bal = s[1]
                    /\ log[e.ledgerID] = [succ |-> 0, fail |-> 1]
          /\ pc[w] = "ret" =>
               log[e.ledgerID] =
                 IF successful[w] = 0 THEN [succ |-> 1, fail |-> 0]
                 ELSE [succ |-> 0, fail |-> 1]

\* a withdraw has succeeded and still holds the lock
C8_Witness ==
  \E w \in Workers :
    /\ cur[w].mode = W /\ pc[w] = "wUnlock" /\ successful[w] = 0
    /\ balance[cur[w].acc] = snap[w][1] - cur[w].amount

\* the entries dispatched so far that touch account a
Touching(a) ==
  {e \in BagToSet(dispatched) : e.acc = a \/ (e.mode = T /\ e.other = a)}
RECURSIVE SumAmounts(_)
SumAmounts(S) ==
  IF S = {} THEN 0
  ELSE LET e == CHOOSE x \in S : TRUE
       IN  e.amount * CopiesIn(e, dispatched) + SumAmounts(S \ {e})
\* a deposit into a has been dispatched and has not yet stored the balance
DepositPending(a) ==
  \E w \in Workers :
    cur[w].mode = D /\ cur[w].acc = a /\ pc[w] \in {"dLock", "dRead", "dWrite"}

\* C9: for an account that only deposits have been issued to, whenever none of
\* them is still under way (at the end of the run in particular) the balance
\* is the sum of the amounts of the deposits issued; and a deposit that has
\* returned from recordSucc has exactly one success and no failure recorded.
C9_DepositsAddUp ==
  /\ \A a \in Accounts :
       ((\A e \in Touching(a) : e.mode = D) /\ ~DepositPending(a)) =>
         balance[a] = SumAmounts(Touching(a))
  /\ \A w \in Workers :
       (cur[w].mode = D /\ pc[w] \in {"dUnlock", "ret"}) =>
         log[cur[w].ledgerID] = [succ |-> 1, fail |-> 0]

\* all workers have finished and some account received two deposits and
\* nothing else
C9_Witness ==
  /\ AllWorkersDone
  /\ \E a \in Accounts :
       /\ \A e \in Touching(a) : e.mode = D
       /\ Cardinality(Touching(a)) >= 2
       /\ balance[a] = 2

\* C10: no balance is ever negative (the amounts of the ledger are not).
C10_BalanceNeverNegative == \A a \in Accounts : balance[a] >= 0

\* a withdraw or transfer of more than the balance is being rejected while a
\* balance is 0
C10_Witness ==
  \E w \in Workers :
    /\ pc[w] = "rfInc"
    /\ balance[cur[w].acc] = 0
    /\ cur[w].amount > 0

\* no worker is inside a Bank operation
InOperation(w) ==
  pc[w] \notin {"idle", "check", "lockLedger", "take", "unlockLedger", "ret",
                "done"}
RECURSIVE TotalBalance(_)
TotalBalance(A) ==
  IF A = {} THEN 0
  ELSE LET a == CHOOSE x \in A : TRUE
       IN  balance[a] + TotalBalance(A \ {a})
\* the deposits issued, and the withdrawals issued that recorded a success
DepositsDone == {e \in BagToSet(dispatched) : e.mode = D}
WithdrawalsDone ==
  {e \in BagToSet(dispatched) : e.mode = W /\ log[e.ledgerID].succ = 1}

\* C11: whenever no worker is inside a Bank operation (at the end of the run
\* in particular) the sum of all balances is the total of the deposits made
\* minus the total of the withdrawals that succeeded; transfers, successful
\* or not, add nothing to it and take nothing from it.
C11_SumOfBalances ==
  (\A w \in Workers : ~InOperation(w)) =>
    TotalBalance(Accounts) = SumAmounts(DepositsDone) - SumAmounts(WithdrawalsDone)

\* all workers have finished after a deposit and a transfer that moved funds
C11_Witness ==
  /\ AllWorkersDone
  /\ DepositsDone # {}
  /\ \E e \in BagToSet(dispatched) : PairTransfer(e) /\ log[e.ledgerID].succ = 1
  /\ TotalBalance(Accounts) > 0

\* the account locks a thread holds
HeldAccounts(t) == {a \in Accounts : t \in accLock[a]}

\* C12: the account locks are acquired in ascending id order: a worker that
\* holds an account lock and requests another one requests a lock of a
\* strictly higher id than every account lock it holds.
C12_AscendingLockOrder ==
  TakesSound =>
    \A w \in Workers :
      \A a \in Wanted(w) : \A h \in HeldAccounts(w) \ {a} : a > h

\* the same, for the locks transfer itself acquires at lines 218-225
C12_OrderInsideTransfer ==
  \A w \in Workers :
    pc[w] = "tLock2" =>
      /\ w \in accLock[FirstLock(cur[w])]
      /\ SecondLock(cur[w]) > FirstLock(cur[w])

\* C13: the emptiness test and the removal of the front entry are one step
\* under ledger_lock: a worker that holds ledger_lock and is about to call
\* front() / pop_front() finds the queue non-empty, and no worker has read
\* the front of an empty queue.
C13_TakeChecksUnderLock ==
  /\ \A w \in Workers : pc[w] = "take" => (w \in ledger_lock /\ ledger # <<>>)
  /\ ~crashed
  /\ \A w \in Workers : Loaded(cur[w]) \/ cur[w] = NoEntry

Threads == Workers \cup {Driver}
\* the thread is at a pthread_mutex_lock of an account lock / of ledger_lock
RequestsAccount(t) ==
  IF t = Driver THEN drv = "print" /\ dIdx < NumAccounts
  ELSE Wanted(t) # {}
RequestsLedger(t) == t \in Workers /\ pc[t] = "lockLedger"
\* the account locks the operation of an entry takes before it records
LocksOf(e) == IF PairTransfer(e) THEN {e.acc, e.other} ELSE {e.acc}

\* C14: bank_lock is the innermost lock: a thread that holds it requests no
\* account lock and not ledger_lock; a worker holds it only inside recordSucc
\* or recordFail, with the account locks of its operation already acquired,
\* and the driver holds it only after it released every account lock of the
\* report.
C14_StatsLockInnermost ==
  \A t \in bank_lock :
    /\ ~RequestsAccount(t) /\ ~RequestsLedger(t)
    /\ t \in Workers =>
         /\ pc[t] \in {"rsLog", "rsInc", "rsUnlock", "rfLog", "rfInc", "rfUnlock"}
         /\ LocksOf(cur[t]) \subseteq HeldAccounts(t)
    /\ t = Driver =>
         /\ drv = "stats"
         /\ Len(report) = NumAccounts
         /\ HeldAccounts(Driver) = {}

\* a worker records the success of a transfer with both account locks held
C14_Witness ==
  \E w \in Workers :
    /\ w \in bank_lock /\ pc[w] = "rsInc"
    /\ PairTransfer(cur[w])
    /\ HeldAccounts(w) = {cur[w].acc, cur[w].other}

RequestsStats(t) ==
  IF t = Driver THEN drv = "print" /\ dIdx = NumAccounts
  ELSE pc[t] \in {"rsLock", "rfLock"}

\* C15: the lock domains are disjoint: no thread holds more than two account
\* locks, no thread holds an account lock or bank_lock while it requests
\* ledger_lock, and no thread holds ledger_lock while it requests an account
\* lock or bank_lock.
C15_LockDomainsDisjoint ==
  TakesSound =>
    \A t \in Threads :
      /\ Cardinality(HeldAccounts(t)) <= 2
      /\ RequestsLedger(t) => (HeldAccounts(t) = {} /\ t \notin bank_lock)
      /\ t \in ledger_lock => (~RequestsAccount(t) /\ ~RequestsStats(t))

\* load_ledger has returned: nothing is appended to the queue any more
LoadOver == drv \notin {"open", "load"}
\* the number of removals made so far (a worker between its removal and the
\* unlock of line 142 has removed an entry that is not yet in dispatched)
Removals ==
  BagCardinality(dispatched)
    + Cardinality({w \in Workers : pc[w] = "unlockLedger"})

\* C16: after loading the queue is a FIFO that only shrinks: every step
\* leaves it unchanged or removes its front entry, the k-th removal returns
\* the front entry, whose ledgerID is k-1, and a queue that is empty stays
\* empty.
C16_FifoOnlyShrinks ==
  [][ /\ LoadOver =>
           \/ ledger' = ledger
           \/ ledger # <<>> /\ ledger' = Tail(ledger)
      /\ \A w \in Workers :
           (pc[w] = "take" /\ pc'[w] = "unlockLedger") =>
             /\ ledger # <<>>
             /\ cur'[w] = Head(ledger)
             /\ cur'[w].ledgerID = Removals
    ]_vars

\* the same for the removals made from a non-empty queue
C16_FifoWhileNonEmpty ==
  [][ /\ LoadOver =>
           \/ ledger' = ledger
           \/ ledger # <<>> /\ ledger' = Tail(ledger)
      /\ \A w \in Workers :
           (pc[w] = "take" /\ pc'[w] = "unlockLedger" /\ ledger # <<>>) =>
             /\ cur'[w] = Head(ledger)
             /\ cur'[w].ledgerID = Removals
    ]_vars

\* C17: every return path of deposit, withdraw and transfer has released
\* the locks the operation acquired: a worker that is not inside a Bank
\* operation holds no account lock and not bank_lock.
C17_NoLockOutsideOperation ==
  TakesSound =>
    \A w \in Workers :
      ~InOperation(w) => (HeldAccounts(w) = {} /\ w \notin bank_lock)

\* the same for the return paths other than the self-transfer's: deposit,
\* withdraw and a transfer between two accounts return with the locks of
\* their accounts released
C17_OtherPathsRelease ==
  \A w \in Workers :
    (pc[w] = "ret" /\ ~SelfTransfer(cur[w])) =>
      /\ w \notin bank_lock
      /\ \A a \in LocksOf(cur[w]) : w \notin accLock[a]

\* C18: print_account visits the accounts in ascending id order, one lock at
\* a time: the driver holds an account lock only between lines 8 and 11, and
\* then only the lock of the account it is at; the lines written so far are
\* those of accounts 0, 1, ... in this order, each with the balance of its
\* account; bank_lock is taken only after the last account lock is released.
C18_PrintOneLockAtATime ==
  /\ HeldAccounts(Driver) = (IF drv = "printed" THEN {dIdx} ELSE {})
  /\ \A i \in 1 .. Len(report) :
       /\ report[i].id = i - 1
       /\ report[i].balance = balance[i - 1]
  /\ drv \in {"print", "printed"} => Len(report) = dIdx
  /\ drv = "printed" => dIdx \in Accounts
  /\ (Driver \in bank_lock \/ drv = "finished") => Len(report) = NumAccounts
  /\ ~Joined => report = <<>>

\* the driver holds the lock of the second account, the line of the first
\* one is written and its lock released
C18_Witness ==
  /\ drv = "printed" /\ dIdx = 1
  /\ report = <<[id |-> 0, balance |-> balance[0]]>>
  /\ balance[0] > 0
  /\ accLock[0] = {} /\ accLock[1] = {Driver}

\* C19: when the ledger file cannot be opened the run aborts before any
\* worker is started: no worker was created, nothing was loaded, removed or
\* dispatched, every balance and counter has its initial value, no lock is
\* held, no report line was written, the bank is deleted, and no thread
\* takes a further step.
C19_OpenFailureAborts ==
  drv = "aborted" =>
    /\ \A w \in Workers : pc[w] = "idle" /\ cur[w] = NoEntry
    /\ ledger = <<>> /\ nextLedgerID = 0 /\ dispatched = EmptyBag
    /\ \A a \in Accounts : balance[a] = 0 /\ accLock[a] = {}
    /\ num_succ = 0 /\ num_fail = 0
    /\ \A i \in LedgerIDs : log[i] = [succ |-> 0, fail |-> 0]
    /\ ledger_lock = {} /\ bank_lock = {}
    /\ report = <<>>
    /\ ~bankAlive
    /\ ~crashed
    /\ ~ENABLED Next

\* the run has aborted on the failure to open the file
C19_Witness == drv = "aborted" /\ ~bankAlive /\ dIdx = 0

\* the [ SUCCESS ] and the [ FAIL ] lines written so far
RECURSIVE SuccLines(_)
SuccLines(I) ==
  IF I = {} THEN 0
  ELSE LET i == CHOOSE x \in I : TRUE
       IN  log[i].succ + SuccLines(I \ {i})
RECURSIVE FailLines(_)
FailLines(I) ==
  IF I = {} THEN 0
  ELSE LET i == CHOOSE x \in I : TRUE
       IN  log[i].fail + FailLines(I \ {i})
\* worker w is between the log line and the store of the counter
Counting(w, at) == pc[w] = at /\ w \in bank_lock
\* the counters agree with the removals and with the lines written
CountersSound ==
  /\ num_succ + num_fail <= Removals
  /\ \A i \in LedgerIDs : log[i].succ + log[i].fail <= 1
  /\ \A w \in Workers :
       pc[w] \in {"rsLog", "rsInc", "rsUnlock", "rfLog", "rfInc", "rfUnlock"}
         => w \in bank_lock
  /\ num_succ = SuccLines(LedgerIDs)
                  - Cardinality({w \in Workers : Counting(w, "rsInc")})
  /\ num_fail = FailLines(LedgerIDs)
                  - Cardinality({w \in Workers : Counting(w, "rfInc")})

\* C20: num_succ and num_fail never decrease and each step adds at most one
\* to one of them; their sum never exceeds the number of entries removed
\* from the queue; an entry gets at most one log line; the counters are
\* changed only by a worker that holds bank_lock and has just written the
\* line, so that outside recordSucc / recordFail num_succ is the number of
\* [ SUCCESS ] lines and num_fail the number of [ FAIL ] lines.
C20_CountersFollowLog ==
  [][ /\ CountersSound /\ CountersSound'
      /\ num_succ' \in {num_succ, num_succ + 1}
      /\ num_fail' \in {num_fail, num_fail + 1}
      /\ num_succ' + num_fail' <= num_succ + num_fail + 1
      /\ num_succ' # num_succ =>
           \E w \in Workers :
             /\ Counting(w, "rsInc") /\ pc'[w] = "rsUnlock"
             /\ log[cur[w].ledgerID] = [succ |-> 1, fail |-> 0]
      /\ num_fail' # num_fail =>
           \E w \in Workers :
             /\ Counting(w, "rfInc") /\ pc'[w] = "rfUnlock"
             /\ log[cur[w].ledgerID] = [succ |-> 0, fail |-> 1]
    ]_vars

\* both counters have counted: a success and a failure are recorded
C20_Witness ==
  /\ num_succ = 1 /\ num_fail = 1
  /\ bank_lock = {}
  /\ SuccLines(LedgerIDs) = 1 /\ FailLines(LedgerIDs) = 1
====
